---- MODULE Spec2Model ----
(***************************************************************************)
(* Model of src/src/render_client.rs: SdfRenderClient, the render client   *)
(* that carries one persistent 3D image (sdf_img) through a fresh render   *)
(* graph every frame and reads its final access type back at retirement.   *)
(*                                                                         *)
(* The client's handlers (new, prepare_render_graph,                       *)
(* prepare_frame_constants, retire_render_graph) and its helpers           *)
(* (cube_indices, gen_shader_mouse_state, TemporalImage::new) are          *)
(* translated from the source.  The render graph engine (rg), the backend  *)
(* and the frame loop that calls the handlers are not part of the source   *)
(* file; they are modelled from the specification (sections 4.2, 4.3, 5    *)
(* and 6) and are marked so in the model map.                              *)
(***************************************************************************)
EXTENDS Integers, Sequences, FiniteSets, TLC

VARIABLES
    new_result,         \* result of SdfRenderClient::new: "none" | "Ok" | "Err"
    backend_calls,      \* creation calls new() made on the backend, in order
    sdf_img,            \* TemporalImage: [resource, access_type, last_rg_handle]
    cube_index_buffer,  \* Buffer: [size, data]
    frame_idx,          \* u32
    graphs,             \* render graphs declared so far, in order (graph g = graphs[g])
    retired_rg,         \* RetiredRenderGraph of the graph executed last (NoReport: none)
    dynamic_constants,  \* DynamicConstants: [count, last] (last FrameConstants pushed)
    loop_pc,            \* position of the frame loop
    frames_before,      \* frames completed before the first modelled one
    retires,            \* number of retire_render_graph calls modelled
    redeemed,           \* export tokens retire_render_graph looked up in a report
    last_frame_state    \* the FrameState passed to the last prepare_frame_constants

clientVars == <<new_result, backend_calls, sdf_img, cube_index_buffer, frame_idx>>
engineVars == <<graphs, retired_rg, dynamic_constants>>
ghostVars == <<frames_before, retires, redeemed, last_frame_state>>
vars == <<clientVars, engineVars, ghostVars, loop_pc>>

----------------------------------------------------------------------------
(* Bounds and program constants *)

\* Graphs (frames) declared in one behaviour.
MaxGraphs == 3

\* The aged initial states start this many frames before the u32 counter wraps.
WrapLead == 2

\* frame_idx is a u32, held as two 16-bit halves [hi, lo] (its value is
\* hi * 2^16 + lo): the model checker's integers are 32-bit signed.
U16Mod == 65536

\* The vk_sync::AccessType values the model distinguishes (the enum has more).
AccessTypes == {"Nothing", "ComputeShaderWrite", "AnyShaderReadSampledImageOrUniformTexelBuffer"}

\* The final access types the model lets the engine report for the colour
\* target, which is exported for sampling.
TexAccessTypes == {"ColorAttachmentWrite", "AnyShaderReadSampledImageOrUniformTexelBuffer"}

----------------------------------------------------------------------------
(* Values *)

\* Option<rg::ExportedHandle<Image>>::None
NoHandle == [rg |-> 0, res |-> "none"]

\* No graph has been executed yet.
NoReport == [rg |-> 0, sdf_img |-> "Nothing", tex |-> "Nothing"]

NoBuffer == [size |-> 0, data |-> <<>>]

NoImage == [resource |-> "none", access_type |-> "Nothing", last_rg_handle |-> NoHandle]

NoFrameState == [width |-> 1, height |-> 1, x |-> 0, y |-> 0, button_mask |-> 0, keys_down |-> {}]

NoConstants ==
    [count |-> 0, last |-> [mouse |-> <<>>, frame_idx |-> [hi |-> 0, lo |-> 0], dims |-> <<0, 0>>]]

----------------------------------------------------------------------------
(* f32 values: exact rationals in lowest terms, or the IEEE specials a     *)
(* division by zero produces.  Rounding to 24 bits of mantissa is not      *)
(* modelled.                                                               *)

Abs(n) == IF n < 0 THEN -n ELSE n

RECURSIVE Gcd(_, _)
Gcd(a, b) == IF b = 0 THEN a ELSE Gcd(b, a % b)

F32(n) == [kind |-> "num", num |-> n, den |-> 1]

F32Inf(sign) == [kind |-> IF sign < 0 THEN "-inf" ELSE "inf", num |-> 0, den |-> 0]

F32NaN == [kind |-> "nan", num |-> 0, den |-> 0]

\* a / b for two f32 values that hold the integers a and b (b >= 0).
F32Div(a, b) ==
    IF b = 0
    THEN IF a = 0 THEN F32NaN ELSE F32Inf(a)
    ELSE LET g == Gcd(Abs(a), b)
         IN  [kind |-> "num", num |-> a \div g, den |-> b \div g]

\* a & b on unsigned integers.
RECURSIVE BitAnd(_, _)
BitAnd(a, b) ==
    IF a = 0 \/ b = 0 THEN 0
    ELSE (a % 2) * (b % 2) + 2 * BitAnd(a \div 2, b \div 2)

U32(hi, lo) == [hi |-> hi, lo |-> lo]

\* 0u32
U32Zero == U32(0, 0)

\* 2^32 - k, for 1 <= k <= 2^16.
U32FromEnd(k) == U32(U16Mod - 1, U16Mod - k)

\* Mutant: saturating_add in place of overflowing_add.
overflowing_add_saturating(a, b) ==
    IF a.lo + b >= U16Mod /\ a.hi = U16Mod - 1
    THEN << U32(U16Mod - 1, U16Mod - 1), TRUE >>
    ELSE << U32(a.hi + ((a.lo + b) \div U16Mod), (a.lo + b) % U16Mod), FALSE >>

\* u32::overflowing_add(a, b) for a small b: (wrapped sum, overflowed).
overflowing_add(a, b) ==
    LET lo == a.lo + b
        hi == a.hi + (lo \div U16Mod)
    IN  << U32(hi % U16Mod, lo % U16Mod), hi >= U16Mod >>

----------------------------------------------------------------------------
(* cube_indices *)

\* Mutant: the third triple repeats dim0 of the second.
CubeDims_typo == << <<1, 2, 4>>, <<2, 4, 1>>, <<4, 4, 2>> >>

\* The (ndim, dim0, dim1) triples of the outer loop.
CubeDims == << <<1, 2, 4>>, <<2, 4, 1>>, <<4, 1, 2>> >>

\* Mutant: both inner iterations start from the set bit.
CubeFaces_same_side(d) == << <<d[1], d[3], d[2]>>, <<d[1], d[2], d[3]>> >>

\* The (nbit, dim0, dim1) triples of the inner loop for one outer triple.
CubeFaces(d) == << <<0, d[3], d[2]>>, <<d[1], d[2], d[3]>> >>

\* The six pushes of one inner iteration.
FacePushes(f) ==
    << f[1], f[1] + f[2], f[1] + f[3],
       f[1] + f[3], f[1] + f[2], f[1] + f[2] + f[3] >>

RECURSIVE CubeLoop(_, _)
CubeLoop(i, res) ==
    IF i > Len(CubeDims) THEN res
    ELSE LET faces == CubeFaces(CubeDims[i])
         IN  CubeLoop(i + 1, res \o FacePushes(faces[1]) \o FacePushes(faces[2]))

cube_indices == CubeLoop(1, <<>>)

----------------------------------------------------------------------------
(* gen_shader_mouse_state *)

is_down(keys_down, key) == key \in keys_down

\* Mutant: any button counts as the primary one.
MouseButtonFlag_any(button_mask) ==
    IF button_mask # 0 THEN F32(1) ELSE F32(0)

\* 1.0 if bit 0 of the button mask is set, else 0.0.
MouseButtonFlag(button_mask) ==
    IF BitAnd(button_mask, 1) # 0 THEN F32(1) ELSE F32(0)

gen_shader_mouse_state(frame_state) ==
    LET pos == << F32Div(frame_state.x, frame_state.width),
                  F32Div(frame_state.y, frame_state.height) >>
    IN  << pos[1],
           pos[2],
           MouseButtonFlag(frame_state.button_mask),
           IF is_down(frame_state.keys_down, "LShift") THEN F32(-1) ELSE F32(1) >>

----------------------------------------------------------------------------
(* TemporalImage *)

\* Mutant: the image starts in a shader-write state instead of Nothing.
TemporalImage_new_written(resource) ==
    [resource |-> resource, access_type |-> "ComputeShaderWrite", last_rg_handle |-> NoHandle]

TemporalImage_new(resource) ==
    [resource |-> resource, access_type |-> "Nothing", last_rg_handle |-> NoHandle]

----------------------------------------------------------------------------
(* Inputs *)

\* FrameState snapshots the frame loop passes to the client.
LoopFrameStates ==
    { [width |-> 800, height |-> 600, x |-> 400, y |-> 300, button_mask |-> 0, keys_down |-> {}],
      [width |-> 640, height |-> 480, x |-> 0, y |-> 120, button_mask |-> 3, keys_down |-> {"LShift"}] }

\* FrameState snapshots for checking gen_shader_mouse_state alone.
MouseFrameStates ==
    [ width : {0, 640, 800}, height : {0, 600},
      x : {-8, 0, 400}, y : {0, 300},
      button_mask : 0 .. 3,
      keys_down : SUBSET {"LShift", "LControl"} ]

----------------------------------------------------------------------------
(* The render graph engine (rg), modelled from the specification           *)

ExportToken(g, res) == [rg |-> g, res |-> res]

\* RenderGraph::new followed by the declarations one prepare_render_graph makes.
\* Graph g, once declared, is graphs[g].
DeclaredGraph(imports, first_frame, dims, exports) ==
    [ imports |-> imports,
      passes |-> <<"clear_depth", "edit_sdf", "calculate_sdf_bricks_meta",
                   "clear_color", "raster_sdf">>,
      edit_sdf_first |-> first_frame,
      dims |-> dims,
      exports |-> exports,
      status |-> "declared",
      report |-> NoReport ]

\* RetiredRenderGraph::get_image: (resource, final access type) of an export.
get_image(retired, handle) ==
    << handle.res, IF handle.res = "sdf_img" THEN retired.sdf_img ELSE retired.tex >>

----------------------------------------------------------------------------
(* SdfRenderClient *)

\* Mutant: a failed render pass creation is not propagated.
new_ignores_pass_error(create_image_ok, create_buffer_ok, create_render_pass_ok) ==
    /\ new_result = "none"
    /\ IF ~create_image_ok
       THEN /\ backend_calls' = <<[call |-> "create_image", ok |-> FALSE]>>
            /\ new_result' = "Err"
            /\ UNCHANGED <<sdf_img, cube_index_buffer, frame_idx>>
       ELSE IF ~create_buffer_ok
       THEN /\ backend_calls' = << [call |-> "create_image", ok |-> TRUE],
                                   [call |-> "create_buffer", ok |-> FALSE] >>
            /\ new_result' = "Err"
            /\ UNCHANGED <<sdf_img, cube_index_buffer, frame_idx>>
       ELSE /\ backend_calls' = << [call |-> "create_image", ok |-> TRUE],
                                   [call |-> "create_buffer", ok |-> TRUE],
                                   [call |-> "create_render_pass",
                                    ok |-> create_render_pass_ok] >>
            /\ new_result' = "Ok"
            /\ sdf_img' = TemporalImage_new("sdf_img")
            /\ cube_index_buffer' =
                   [size |-> Len(cube_indices) * 4, data |-> cube_indices]
            /\ frame_idx' = U32Zero
    /\ UNCHANGED <<engineVars, ghostVars>>

\* One creation call on the backend and its outcome.
BackendCall(call, ok) == [call |-> call, ok |-> ok]

\* SdfRenderClient::new.  The three inputs are the outcomes of the backend's
\* creation calls; `?` returns at the first failure.
new(create_image_ok, create_buffer_ok, create_render_pass_ok) ==
    LET image == <<BackendCall("create_image", create_image_ok)>>
        buffer == image \o <<BackendCall("create_buffer", create_buffer_ok)>>
        pass == buffer \o <<BackendCall("create_render_pass", create_render_pass_ok)>>
    IN  /\ new_result = "none"
        /\ IF ~create_image_ok
           THEN /\ backend_calls' = image
                /\ new_result' = "Err"
                /\ UNCHANGED <<sdf_img, cube_index_buffer, frame_idx>>
           ELSE IF ~create_buffer_ok
           THEN /\ backend_calls' = buffer
                /\ new_result' = "Err"
                /\ UNCHANGED <<sdf_img, cube_index_buffer, frame_idx>>
           ELSE IF ~create_render_pass_ok
           THEN /\ backend_calls' = pass
                /\ new_result' = "Err"
                /\ UNCHANGED <<sdf_img, cube_index_buffer, frame_idx>>
           ELSE /\ backend_calls' = pass
                /\ new_result' = "Ok"
                /\ sdf_img' = TemporalImage_new("sdf_img")
                /\ cube_index_buffer' =
                       [size |-> Len(cube_indices) * 4, data |-> cube_indices]
                /\ frame_idx' = U32Zero
        /\ UNCHANGED <<engineVars, ghostVars>>

\* Mutant: edit_sdf is always called with its first-frame flag true.
prepare_render_graph_always_first(frame_state) ==
    LET g == Len(graphs) + 1
        sdf_export == ExportToken(g, "sdf_img")
        tex_export == ExportToken(g, "tex")
        rg == DeclaredGraph(
                  << <<sdf_img.resource, sdf_img.access_type>>,
                     <<"cube_index_buffer", "TransferWrite">> >>,
                  TRUE,
                  <<frame_state.width, frame_state.height>>,
                  <<sdf_export, tex_export>>)
    IN  /\ new_result = "Ok"
        /\ graphs' = Append(graphs, rg)
        /\ sdf_img' = [sdf_img EXCEPT !.last_rg_handle = sdf_export]
        /\ UNCHANGED <<new_result, backend_calls, cube_index_buffer, frame_idx,
                       dynamic_constants, ghostVars>>

\* Mutant: the import resets the handle's access type.
prepare_render_graph_writes_access(frame_state) ==
    LET g == Len(graphs) + 1
        sdf_export == ExportToken(g, "sdf_img")
        tex_export == ExportToken(g, "tex")
        rg == DeclaredGraph(
                  << <<sdf_img.resource, sdf_img.access_type>>,
                     <<"cube_index_buffer", "TransferWrite">> >>,
                  frame_idx = U32Zero,
                  <<frame_state.width, frame_state.height>>,
                  <<sdf_export, tex_export>>)
    IN  /\ new_result = "Ok"
        /\ graphs' = Append(graphs, rg)
        /\ sdf_img' = [sdf_img EXCEPT !.last_rg_handle = sdf_export,
                                      !.access_type = "Nothing"]
        /\ UNCHANGED <<new_result, backend_calls, cube_index_buffer, frame_idx,
                       dynamic_constants, ghostVars>>

\* Mutant: the frame counter is advanced when the graph is declared.
prepare_render_graph_advances_frame(frame_state) ==
    LET g == Len(graphs) + 1
        sdf_export == ExportToken(g, "sdf_img")
        tex_export == ExportToken(g, "tex")
        rg == DeclaredGraph(
                  << <<sdf_img.resource, sdf_img.access_type>>,
                     <<"cube_index_buffer", "TransferWrite">> >>,
                  frame_idx = U32Zero,
                  <<frame_state.width, frame_state.height>>,
                  <<sdf_export, tex_export>>)
    IN  /\ new_result = "Ok"
        /\ graphs' = Append(graphs, rg)
        /\ sdf_img' = [sdf_img EXCEPT !.last_rg_handle = sdf_export]
        /\ frame_idx' = overflowing_add(frame_idx, 1)[1]
        /\ UNCHANGED <<new_result, backend_calls, cube_index_buffer,
                       dynamic_constants, ghostVars>>

\* Mutant: the token recorded on the handle is the colour target's.
prepare_render_graph_records_tex(frame_state) ==
    LET g == Len(graphs) + 1
        sdf_export == ExportToken(g, "sdf_img")
        tex_export == ExportToken(g, "tex")
        rg == DeclaredGraph(
                  << <<sdf_img.resource, sdf_img.access_type>>,
                     <<"cube_index_buffer", "TransferWrite">> >>,
                  frame_idx = U32Zero,
                  <<frame_state.width, frame_state.height>>,
                  <<sdf_export, tex_export>>)
    IN  /\ new_result = "Ok"
        /\ graphs' = Append(graphs, rg)
        /\ sdf_img' = [sdf_img EXCEPT !.last_rg_handle = tex_export]
        /\ UNCHANGED <<new_result, backend_calls, cube_index_buffer, frame_idx,
                       dynamic_constants, ghostVars>>

\* Mutant: the Arc is moved into the graph instead of cloned.
prepare_render_graph_moves_resource(frame_state) ==
    LET g == Len(graphs) + 1
        sdf_export == ExportToken(g, "sdf_img")
        tex_export == ExportToken(g, "tex")
        rg == DeclaredGraph(
                  << <<sdf_img.resource, sdf_img.access_type>>,
                     <<"cube_index_buffer", "TransferWrite">> >>,
                  frame_idx = U32Zero,
                  <<frame_state.width, frame_state.height>>,
                  <<sdf_export, tex_export>>)
    IN  /\ new_result = "Ok"
        /\ graphs' = Append(graphs, rg)
        /\ sdf_img' = [sdf_img EXCEPT !.last_rg_handle = sdf_export,
                                      !.resource = "none"]
        /\ UNCHANGED <<new_result, backend_calls, cube_index_buffer, frame_idx,
                       dynamic_constants, ghostVars>>

\* prepare_render_graph, on a fresh graph.
prepare_render_graph(frame_state) ==
    LET g == Len(graphs) + 1
        sdf_export == ExportToken(g, "sdf_img")
        tex_export == ExportToken(g, "tex")
        rg == DeclaredGraph(
                  << <<sdf_img.resource, sdf_img.access_type>>,
                     <<"cube_index_buffer", "TransferWrite">> >>,
                  frame_idx = U32Zero,
                  <<frame_state.width, frame_state.height>>,
                  <<sdf_export, tex_export>>)
    IN  /\ new_result = "Ok"
        /\ graphs' = Append(graphs, rg)
        /\ sdf_img' = [sdf_img EXCEPT !.last_rg_handle = sdf_export]
        /\ UNCHANGED <<new_result, backend_calls, cube_index_buffer, frame_idx,
                       dynamic_constants, ghostVars>>

\* prepare_frame_constants.
prepare_frame_constants(frame_state) ==
    /\ new_result = "Ok"
    /\ dynamic_constants' =
           [ count |-> dynamic_constants.count + 1,
             last |-> [ mouse |-> gen_shader_mouse_state(frame_state),
                        frame_idx |-> frame_idx,
                        dims |-> <<frame_state.width, frame_state.height>> ] ]
    /\ last_frame_state' = frame_state
    /\ UNCHANGED <<clientVars, graphs, frames_before, retires, redeemed>>

\* Mutant: the handle is taken and looked up, but the result is not stored.
retire_render_graph_stale(retired) ==
    /\ new_result = "Ok"
    /\ IF sdf_img.last_rg_handle # NoHandle
       THEN LET handle == sdf_img.last_rg_handle
            IN  /\ sdf_img' = [sdf_img EXCEPT !.last_rg_handle = NoHandle]
                /\ redeemed' = redeemed \cup {[handle |-> handle, report |-> retired.rg]}
       ELSE UNCHANGED <<sdf_img, redeemed>>
    /\ frame_idx' = overflowing_add(frame_idx, 1)[1]
    /\ retires' = retires + 1
    /\ UNCHANGED <<new_result, backend_calls, cube_index_buffer, dynamic_constants,
                   frames_before, last_frame_state>>

\* Mutant: retirement only advances the frame counter.
retire_render_graph_skips_handle(retired) ==
    /\ new_result = "Ok"
    /\ frame_idx' = overflowing_add(frame_idx, 1)[1]
    /\ retires' = retires + 1
    /\ UNCHANGED <<new_result, backend_calls, cube_index_buffer, dynamic_constants,
                   frames_before, last_frame_state, sdf_img, redeemed>>

\* Mutant: the handle is taken and dropped without being looked up.
retire_render_graph_drops_handle(retired) ==
    /\ new_result = "Ok"
    /\ sdf_img' = [sdf_img EXCEPT !.last_rg_handle = NoHandle]
    /\ frame_idx' = overflowing_add(frame_idx, 1)[1]
    /\ retires' = retires + 1
    /\ UNCHANGED <<new_result, backend_calls, cube_index_buffer, dynamic_constants,
                   frames_before, last_frame_state, redeemed>>

\* Mutant: the handle is read without take(), so it stays recorded.
retire_render_graph_keeps_handle(retired) ==
    /\ new_result = "Ok"
    /\ IF sdf_img.last_rg_handle # NoHandle
       THEN LET handle == sdf_img.last_rg_handle
            IN  /\ sdf_img' = [sdf_img EXCEPT
                                   !.access_type = get_image(retired, handle)[2]]
                /\ redeemed' = redeemed \cup {[handle |-> handle, report |-> retired.rg]}
       ELSE UNCHANGED <<sdf_img, redeemed>>
    /\ frame_idx' = overflowing_add(frame_idx, 1)[1]
    /\ retires' = retires + 1
    /\ UNCHANGED <<new_result, backend_calls, cube_index_buffer, dynamic_constants,
                   frames_before, last_frame_state>>

\* Mutant: the report's SDF entry is applied whether or not a token is recorded.
retire_render_graph_always_applies(retired) ==
    /\ new_result = "Ok"
    /\ sdf_img' = [sdf_img EXCEPT !.last_rg_handle = NoHandle,
                                  !.access_type = retired.sdf_img]
    /\ redeemed' = IF sdf_img.last_rg_handle # NoHandle
                   THEN redeemed \cup {[handle |-> sdf_img.last_rg_handle,
                                        report |-> retired.rg]}
                   ELSE redeemed
    /\ frame_idx' = overflowing_add(frame_idx, 1)[1]
    /\ retires' = retires + 1
    /\ UNCHANGED <<new_result, backend_calls, cube_index_buffer, dynamic_constants,
                   frames_before, last_frame_state>>

\* retire_render_graph.
retire_render_graph(retired) ==
    /\ new_result = "Ok"
    /\ IF sdf_img.last_rg_handle # NoHandle
       THEN LET handle == sdf_img.last_rg_handle
            IN  /\ sdf_img' = [sdf_img EXCEPT !.last_rg_handle = NoHandle,
                                              !.access_type = get_image(retired, handle)[2]]
                /\ redeemed' = redeemed \cup {[handle |-> handle, report |-> retired.rg]}
       ELSE UNCHANGED <<sdf_img, redeemed>>
    /\ frame_idx' = overflowing_add(frame_idx, 1)[1]
    /\ retires' = retires + 1
    /\ UNCHANGED <<new_result, backend_calls, cube_index_buffer, dynamic_constants,
                   frames_before, last_frame_state>>

----------------------------------------------------------------------------
(* The frame loop, modelled from the specification (sections 4.3 and 5):   *)
(* construct the client, then per frame declare a fresh graph, push the    *)
(* frame constants, hand the graph to the execution layer, and retire it.  *)

LoopNew ==
    /\ loop_pc = "start"
    /\ \E i \in BOOLEAN, b \in BOOLEAN, p \in BOOLEAN : new(i, b, p)
    /\ loop_pc' = IF new_result' = "Ok" THEN "idle" ELSE "exit"

LoopPrepareRenderGraph ==
    /\ loop_pc = "idle"
    /\ Len(graphs) < MaxGraphs
    /\ \E fs \in LoopFrameStates : prepare_render_graph(fs)
    /\ loop_pc' = "declared"
    /\ UNCHANGED retired_rg

LoopPrepareFrameConstants ==
    /\ loop_pc = "declared"
    /\ \E fs \in LoopFrameStates : prepare_frame_constants(fs)
    /\ loop_pc' = "ready"
    /\ UNCHANGED retired_rg

\* The execution layer schedules the declared graph and produces its
\* retirement report; the final access types are the engine's choice.
LoopExecute ==
    /\ loop_pc = "ready"
    /\ \E a \in AccessTypes, t \in TexAccessTypes :
           retired_rg' = [rg |-> Len(graphs), sdf_img |-> a, tex |-> t]
    /\ graphs' = [graphs EXCEPT ![Len(graphs)].status = "executed",
                                ![Len(graphs)].report = retired_rg']
    /\ loop_pc' = "executed"
    /\ UNCHANGED <<clientVars, dynamic_constants, ghostVars>>

LoopRetire ==
    /\ loop_pc = "executed"
    /\ retire_render_graph(retired_rg)
    /\ graphs' = [graphs EXCEPT ![retired_rg.rg].status = "retired"]
    /\ loop_pc' = "idle"
    /\ UNCHANGED retired_rg

----------------------------------------------------------------------------
(* Initial states *)

\* Before SdfRenderClient::new.
InitFresh ==
    /\ new_result = "none"
    /\ backend_calls = <<>>
    /\ sdf_img = NoImage
    /\ cube_index_buffer = NoBuffer
    /\ frame_idx = U32Zero
    /\ loop_pc = "start"
    /\ frames_before = U32Zero

\* A client between two frames, WrapLead frames before its counter wraps.
InitAged ==
    /\ new_result = "Ok"
    /\ backend_calls = << BackendCall("create_image", TRUE),
                          BackendCall("create_buffer", TRUE),
                          BackendCall("create_render_pass", TRUE) >>
    /\ \E a \in AccessTypes :
           sdf_img = [TemporalImage_new("sdf_img") EXCEPT !.access_type = a]
    /\ cube_index_buffer = [size |-> Len(cube_indices) * 4, data |-> cube_indices]
    /\ frames_before = U32FromEnd(WrapLead)
    /\ frame_idx = frames_before
    /\ loop_pc = "idle"

Init ==
    /\ InitFresh \/ InitAged
    /\ graphs = <<>>
    /\ retired_rg = NoReport
    /\ dynamic_constants = NoConstants
    /\ retires = 0
    /\ redeemed = {}
    /\ last_frame_state = NoFrameState

Next ==
    \/ LoopNew
    \/ LoopPrepareRenderGraph
    \/ LoopPrepareFrameConstants
    \/ LoopExecute
    \/ LoopRetire

Spec == Init /\ [][Next]_vars

\* The frame loop keeps running: a declared graph is executed and retired.
LiveSpec ==
    /\ Spec
    /\ WF_vars(LoopPrepareFrameConstants)
    /\ WF_vars(LoopExecute)
    /\ WF_vars(LoopRetire)

----------------------------------------------------------------------------
(* gen_shader_mouse_state alone: a constructed client whose                *)
(* prepare_frame_constants is fed every FrameState of MouseFrameStates.    *)

\* prepare_frame_constants calls in one behaviour of MouseSpec.
MaxPushes == 2

MouseInit ==
    /\ InitAged
    /\ graphs = <<>>
    /\ retired_rg = NoReport
    /\ dynamic_constants = NoConstants
    /\ retires = 0
    /\ redeemed = {}
    /\ last_frame_state = NoFrameState

MousePush ==
    /\ dynamic_constants.count < MaxPushes
    /\ \E fs \in MouseFrameStates : prepare_frame_constants(fs)
    /\ UNCHANGED <<retired_rg, loop_pc>>

MouseSpec == MouseInit /\ [][MousePush]_vars

----------------------------------------------------------------------------
(* The client's interface driven in any order: the handlers are public and *)
(* take &mut self, so nothing in the client orders them.  Graphs are       *)
(* executed by the engine in any order and any report may be passed to     *)
(* retire_render_graph.                                                    *)

\* retire_render_graph calls in one behaviour of ApiSpec.
MaxRetires == 2

\* Graphs declared in one behaviour of ApiSpec.
ApiMaxGraphs == 2

\* prepare_frame_constants calls in one behaviour of ApiSpec.
ApiMaxPushes == 1

\* The FrameState snapshot ApiSpec passes to the client.
ApiFrameStates ==
    { [width |-> 800, height |-> 600, x |-> 400, y |-> 300, button_mask |-> 0, keys_down |-> {}] }

\* The final access type ApiSpec lets the engine report for the colour target.
ApiTexAccessTypes == {"AnyShaderReadSampledImageOrUniformTexelBuffer"}

ApiNew ==
    /\ loop_pc = "start"
    /\ \E i \in BOOLEAN, b \in BOOLEAN, p \in BOOLEAN : new(i, b, p)
    /\ loop_pc' = IF new_result' = "Ok" THEN "idle" ELSE "exit"

ApiPrepareRenderGraph ==
    /\ Len(graphs) < ApiMaxGraphs
    /\ \E fs \in ApiFrameStates : prepare_render_graph(fs)
    /\ UNCHANGED <<retired_rg, loop_pc>>

ApiPrepareFrameConstants ==
    /\ dynamic_constants.count < ApiMaxPushes
    /\ \E fs \in ApiFrameStates : prepare_frame_constants(fs)
    /\ UNCHANGED <<retired_rg, loop_pc>>

ApiExecute ==
    \E g \in 1 .. Len(graphs) :
        /\ graphs[g].status = "declared"
        /\ \E a \in AccessTypes, t \in ApiTexAccessTypes :
               retired_rg' = [rg |-> g, sdf_img |-> a, tex |-> t]
        /\ graphs' = [graphs EXCEPT ![g].status = "executed", ![g].report = retired_rg']
        /\ UNCHANGED <<clientVars, dynamic_constants, ghostVars, loop_pc>>

ApiRetire ==
    \E g \in 1 .. Len(graphs) :
        /\ graphs[g].status \in {"executed", "retired"}
        /\ retires < MaxRetires
        /\ retire_render_graph(graphs[g].report)
        /\ graphs' = [graphs EXCEPT ![g].status = "retired"]
        /\ UNCHANGED <<retired_rg, loop_pc>>

\* A graph, or the retired graph made of it, is dropped at any point; its
\* clone of each imported Arc goes with it.
ApiDiscard ==
    \E g \in 1 .. Len(graphs) :
        /\ graphs[g].status # "dropped"
        /\ graphs' = [graphs EXCEPT ![g].status = "dropped", ![g].report = NoReport]
        /\ UNCHANGED <<clientVars, retired_rg, dynamic_constants, ghostVars, loop_pc>>

ApiNext ==
    \/ ApiNew
    \/ ApiPrepareRenderGraph
    \/ ApiPrepareFrameConstants
    \/ ApiExecute
    \/ ApiRetire
    \/ ApiDiscard

\* Arc::strong_count of the SDF image: the client's own reference and the
\* clone held by every graph it was imported into and that is not dropped.
StrongCount ==
    (IF sdf_img.resource = "sdf_img" THEN 1 ELSE 0)
    + Cardinality({ g \in 1 .. Len(graphs) :
                        /\ graphs[g].status # "dropped"
                        /\ graphs[g].imports[1][1] = "sdf_img" })

ApiSpec == Init /\ [][ApiNext]_vars

----------------------------------------------------------------------------
(* Claims *)

\* The access type import_image received for the SDF image in graph g.
ImportedAccess(g) == graphs[g].imports[1][2]

\* The export token of the SDF image recorded in graph g.
SdfExport(g) == graphs[g].exports[1]

\* The SDF image's export tokens issued and not yet redeemed by a retirement.
Outstanding ==
    { SdfExport(g) : g \in 1 .. Len(graphs) } \ { r.handle : r \in redeemed }

\* v + 1 modulo 2^32, on the two halves.
U32Succ(v) ==
    IF v.lo < U16Mod - 1 THEN [hi |-> v.hi, lo |-> v.lo + 1]
    ELSE IF v.hi < U16Mod - 1 THEN [hi |-> v.hi + 1, lo |-> 0]
    ELSE [hi |-> 0, lo |-> 0]

\* C1: the access type passed to import_image for the SDF image in frame
\* N+1 is the one frame N's retirement report holds for the export token
\* recorded in frame N (so not that of an earlier report).
C1_RoundTripStateCarry ==
    \A g \in 2 .. Len(graphs) :
        /\ graphs[g - 1].report.rg = g - 1
        /\ ImportedAccess(g) = get_image(graphs[g - 1].report, SdfExport(g - 1))[2]

\* Frame 3 imported what frame 2's report held, which differs from frame 1's.
C1_Witness ==
    /\ Len(graphs) >= 3
    /\ graphs[2].report.sdf_img # graphs[1].report.sdf_img
    /\ ImportedAccess(3) = graphs[2].report.sdf_img
    /\ ImportedAccess(3) # graphs[1].report.sdf_img

C4_FrameCounterWraps ==
    [][ retires' = retires + 1 =>
            /\ frame_idx' = U32Succ(frame_idx)
            /\ frame_idx'.hi \in 0 .. U16Mod - 1
            /\ frame_idx'.lo \in 0 .. U16Mod - 1
            /\ sdf_img'.last_rg_handle = NoHandle
            /\ sdf_img'.access_type =
                   IF sdf_img.last_rg_handle # NoHandle
                   THEN retired_rg.sdf_img
                   ELSE sdf_img.access_type ]_vars

\* The counter has wrapped from 2^32 - 1 to 0 in a retirement that applied a report.
C4_Witness ==
    /\ frames_before # U32Zero
    /\ retires = WrapLead
    /\ frame_idx = U32Zero
    /\ sdf_img.last_rg_handle = NoHandle
    /\ sdf_img.access_type = retired_rg.sdf_img
    /\ sdf_img.access_type # "Nothing"

\* C5: the graph prepare_render_graph declares calls edit_sdf with its
\* first-frame flag true if and only if frame_idx is 0 at the call.
C5_FirstFrameOnly ==
    [][ Len(graphs') = Len(graphs) + 1 =>
            (graphs'[Len(graphs')].edit_sdf_first <=> (frame_idx.hi = 0 /\ frame_idx.lo = 0))
      ]_vars

\* A graph with the initialization and a graph without it have been declared.
C5_Witness ==
    /\ \E g \in 1 .. Len(graphs) : graphs[g].edit_sdf_first
    /\ \E g \in 1 .. Len(graphs) : ~graphs[g].edit_sdf_first

\* C6: prepare_render_graph and prepare_frame_constants leave the SDF
\* image's access_type unchanged; of the per-frame handlers only
\* retire_render_graph writes it.
C6_AccessTypeWrittenOnlyAtRetirement ==
    [][ /\ (Len(graphs') # Len(graphs) \/ dynamic_constants' # dynamic_constants)
            => sdf_img'.access_type = sdf_img.access_type
        /\ (new_result = "Ok" /\ sdf_img'.access_type # sdf_img.access_type)
            => retires' = retires + 1 ]_vars

\* A retirement has changed the access type the last graph had imported.
C6_Witness ==
    /\ Len(graphs) >= 1
    /\ retires = Len(graphs)
    /\ dynamic_constants.count = Len(graphs)
    /\ sdf_img.access_type # ImportedAccess(Len(graphs))

\* C7: whenever an export token is recorded on the SDF image's handle
\* (Imported-Pending-Retirement), the handle eventually returns to Idle, the
\* frame loop running.
C7_PendingLeadsToIdle ==
    (sdf_img.last_rg_handle # NoHandle) ~> (sdf_img.last_rg_handle = NoHandle)

\* A recorded token has been redeemed and cleared.
C7_Witness ==
    /\ redeemed # {}
    /\ sdf_img.last_rg_handle = NoHandle
    /\ graphs[Len(graphs)].status = "retired"

\* C8: new returns an error, and no client, if a creation step fails; it
\* returns a client only when all three succeeded; each step is attempted
\* at most once and none after a failed one.
C8_ConstructionFailsWithoutRetry ==
    LET n == Len(backend_calls)
        order == <<"create_image", "create_buffer", "create_render_pass">>
    IN  /\ n <= 3
        /\ \A i \in 1 .. n : backend_calls[i].call = order[i]
        /\ \A i \in 1 .. n : (i < n => backend_calls[i].ok)
        /\ new_result = "Ok" <=> (n = 3 /\ \A i \in 1 .. n : backend_calls[i].ok)
        /\ new_result = "Err" <=> (n >= 1 /\ ~backend_calls[n].ok)
        /\ new_result = "Err" =>
               /\ sdf_img = NoImage
               /\ cube_index_buffer = NoBuffer
               /\ graphs = <<>>
               /\ loop_pc = "exit"

\* The buffer creation failed after the image was created: no client.
C8_Witness ==
    /\ new_result = "Err"
    /\ Len(backend_calls) = 2
    /\ backend_calls[1].ok
    /\ ~backend_calls[2].ok

\* C9: cube_indices returns one fixed sequence, of length 36, whose every
\* index lies in [0, 8) (seen in the index buffer new() fills with it).
C9_CubeIndices ==
    new_result = "Ok" =>
        /\ cube_index_buffer.data =
               << 0, 4, 2, 2, 4, 6,   1, 3, 5, 5, 3, 7,
                  0, 1, 4, 4, 1, 5,   2, 6, 3, 3, 6, 7,
                  0, 2, 1, 1, 2, 3,   4, 5, 6, 6, 5, 7 >>
        /\ Len(cube_index_buffer.data) = 36
        /\ cube_index_buffer.size = 144
        /\ \A i \in 1 .. Len(cube_index_buffer.data) :
               cube_index_buffer.data[i] \in 0 .. 7

\* A client constructed by new() holds the index buffer.
C9_Witness ==
    /\ new_result = "Ok"
    /\ frames_before = U32Zero
    /\ loop_pc = "idle"
    /\ Len(cube_index_buffer.data) = 36

\* The inputs of the pointer-normalization scenario.
ScenarioFrameState ==
    [width |-> 800, height |-> 600, x |-> 400, y |-> 300, button_mask |-> 0, keys_down |-> {}]

\* q is the f32 quotient a / b.
IsQuotient(q, a, b) ==
    IF b # 0
    THEN q.kind = "num" /\ q.den > 0 /\ q.num * b = a * q.den
    ELSE q.kind = (IF a = 0 THEN "nan" ELSE IF a < 0 THEN "-inf" ELSE "inf")

\* C10: gen_shader_mouse_state returns (x / width, y / height, b, m), b
\* being 1.0 exactly when bit 0 of the button mask is set and m being -1.0
\* exactly when left shift is held, else 1.0; for 800 by 600, pointer
\* (400, 300), no button and no modifier it is (0.5, 0.5, 0.0, 1.0).
C10_PointerNormalization ==
    dynamic_constants.count > 0 =>
        LET fs == last_frame_state
            m == dynamic_constants.last.mouse
        IN  /\ Len(m) = 4
            /\ IsQuotient(m[1], fs.x, fs.width)
            /\ IsQuotient(m[2], fs.y, fs.height)
            /\ m[3] = [kind |-> "num", num |-> fs.button_mask % 2, den |-> 1]
            /\ m[4] = [kind |-> "num",
                       num |-> IF "LShift" \in fs.keys_down THEN -1 ELSE 1,
                       den |-> 1]
            /\ fs = ScenarioFrameState =>
                   m = << [kind |-> "num", num |-> 1, den |-> 2],
                          [kind |-> "num", num |-> 1, den |-> 2],
                          [kind |-> "num", num |-> 0, den |-> 1],
                          [kind |-> "num", num |-> 1, den |-> 1] >>

\* The scenario's constants have been pushed.
C10_Witness ==
    /\ dynamic_constants.count > 0
    /\ last_frame_state = ScenarioFrameState
    /\ dynamic_constants.last.mouse[1] = [kind |-> "num", num |-> 1, den |-> 2]
    /\ dynamic_constants.last.mouse[3] = [kind |-> "num", num |-> 0, den |-> 1]

\* C11: under any order of prepare_render_graph and retire_render_graph
\* calls, the SDF image's handle holds an export token exactly when the most
\* recent of those calls was prepare_render_graph: none initially, the new
\* graph's token after every prepare, none after every retire, and no
\* other step changes it.
C11_TokenRecordedIffLastCallWasPrepare ==
    /\ sdf_img.last_rg_handle = NoHandle
    /\ [][ /\ Len(graphs') = Len(graphs) + 1 =>
                  /\ sdf_img'.last_rg_handle # NoHandle
                  /\ sdf_img'.last_rg_handle = graphs'[Len(graphs')].exports[1]
           /\ retires' = retires + 1 => sdf_img'.last_rg_handle = NoHandle
           /\ (Len(graphs') = Len(graphs) /\ retires' = retires) =>
                  sdf_img'.last_rg_handle = sdf_img.last_rg_handle ]_vars

\* A token is recorded again by a prepare that followed a retire.
C11_Witness ==
    /\ Len(graphs) = 2
    /\ retires = 1
    /\ graphs[1].status = "retired"
    /\ sdf_img.last_rg_handle = SdfExport(2)

\* v + n modulo 2^32.
RECURSIVE U32Plus(_, _)
U32Plus(v, n) == IF n = 0 THEN v ELSE U32Plus(U32Succ(v), n - 1)

\* C12: frame_idx is advanced once per completed frame, not per declared
\* one: it always equals the number of retire_render_graph calls made so far
\* (mod 2^32, counted from the client's starting value), whatever the
\* number of graphs declared and of frame constants pushed, and the
\* constants pushed carry that value.
C12_FrameIdxCountsRetirements ==
    new_result = "Ok" =>
        /\ frame_idx = U32Plus(frames_before, retires)
        /\ dynamic_constants.count > 0 =>
               \E n \in 0 .. retires :
                   dynamic_constants.last.frame_idx = U32Plus(frames_before, n)

\* Two graphs declared and constants pushed, one retirement: the counter moved by one.
C12_Witness ==
    /\ Len(graphs) = 2
    /\ dynamic_constants.count >= 1
    /\ retires = 1
    /\ frame_idx = U32Succ(frames_before)

\* C13: over a client's lifetime only the first declared graph contains the
\* one-time initialization of the SDF image (edit_sdf's first-frame flag),
\* also when the frame counter has wrapped.  Graph g of a behaviour is the
\* first of the lifetime when no frame was completed before it.
C13_InitializationOnlyOnFirstFrame ==
    \A g \in 1 .. Len(graphs) :
        graphs[g].edit_sdf_first <=> (frames_before = U32Zero /\ g = 1)

C15_RetireWithoutTokenOnlyAdvancesFrame ==
    [][ (retires' = retires + 1 /\ sdf_img.last_rg_handle = NoHandle) =>
            /\ sdf_img' = sdf_img
            /\ redeemed' = redeemed
            /\ frame_idx' = U32Succ(frame_idx) ]_vars

\* A retirement ran with no token recorded, given a report whose entry
\* differs from the access type the handle kept.
C15_Witness ==
    /\ retires = 2
    /\ Cardinality(redeemed) = 1
    /\ sdf_img.last_rg_handle = NoHandle
    /\ \E g \in 1 .. Len(graphs) :
           /\ graphs[g].status = "retired"
           /\ graphs[g].report.sdf_img # sdf_img.access_type
    /\ frame_idx = U32Plus(frames_before, 2)

\* C16: the graph receives a clone of the Arc of the SDF image, never the
\* client's own reference: after any prepare_render_graph calls, graph
\* discards and retire_render_graph calls the client still holds the image,
\* every graph imported that same image, and the strong count is at least
\* 1, so the image is not freed while the client exists.
C16_ClientKeepsItsReference ==
    new_result = "Ok" =>
        /\ sdf_img.resource = "sdf_img"
        /\ \A g \in 1 .. Len(graphs) : graphs[g].imports[1][1] = "sdf_img"
        /\ StrongCount >= 1

\* Every graph the image was imported into is dropped; the client's reference is left.
C16_Witness ==
    /\ Len(graphs) = 2
    /\ \A g \in 1 .. Len(graphs) : graphs[g].status = "dropped"
    /\ retires >= 1
    /\ StrongCount = 1

\* C17: a newly constructed client is Idle: frame_idx is 0, no export token
\* is recorded and the SDF image's access_type is Nothing; the first frame's
\* import observes Nothing, and a later import observes Nothing only when
\* the preceding retirement's report held Nothing.
C17_NewClientStartsIdle ==
    /\ (new_result = "Ok" /\ frames_before = U32Zero /\ retires = 0 /\ Len(graphs) = 0) =>
           /\ frame_idx = U32Zero
           /\ sdf_img.last_rg_handle = NoHandle
           /\ sdf_img.access_type = "Nothing"
           /\ sdf_img.resource = "sdf_img"
    /\ (frames_before = U32Zero /\ Len(graphs) >= 1) => ImportedAccess(1) = "Nothing"
    /\ \A g \in 2 .. Len(graphs) :
           ImportedAccess(g) = "Nothing" => graphs[g - 1].report.sdf_img = "Nothing"

\* A new client's first import observed Nothing, its second did not.
C17_Witness ==
    /\ frames_before = U32Zero
    /\ Len(graphs) >= 2
    /\ ImportedAccess(1) = "Nothing"
    /\ ImportedAccess(2) # "Nothing"
    /\ graphs[1].report.sdf_img # "Nothing"

\* Bit `axis` of vertex v (bits 0, 1, 2 are X, Y, Z).
VertexBit(v, axis) == (v \div (2 ^ axis)) % 2

\* The indices of the k-th group of six (k = 0 .. 5), as a sequence.
CubeGroup(k) == SubSeq(cube_index_buffer.data, 6 * k + 1, 6 * k + 6)

\* The vertices of a group.
GroupVertices(k) == { CubeGroup(k)[i] : i \in 1 .. 6 }

\* The (axis, bit value) pairs all vertices of a group agree on.
GroupFaces(k) ==
    { p \in (0 .. 2) \X {0, 1} : \A v \in GroupVertices(k) : VertexBit(v, p[1]) = p[2] }

\* C18: the 36 indices form 6 consecutive groups of 6; each group is two
\* triangles of three distinct vertices, uses exactly 4 distinct vertices
\* that agree on the bit of one axis, and the 6 groups cover each of the 6
\* (axis, bit value) pairs exactly once.
C18_CubeFaceStructure ==
    new_result = "Ok" =>
        /\ Len(cube_index_buffer.data) = 36
        /\ \A k \in 0 .. 5 :
               /\ Cardinality({ CubeGroup(k)[i] : i \in 1 .. 3 }) = 3
               /\ Cardinality({ CubeGroup(k)[i] : i \in 4 .. 6 }) = 3
               /\ Cardinality(GroupVertices(k)) = 4
               /\ Cardinality(GroupFaces(k)) = 1
        /\ \A p \in (0 .. 2) \X {0, 1} :
               Cardinality({ k \in 0 .. 5 : p \in GroupFaces(k) }) = 1

\* A client constructed by new() holds the buffer, whose first group is the face X = 0.
C18_Witness ==
    /\ new_result = "Ok"
    /\ frames_before = U32Zero
    /\ Len(cube_index_buffer.data) = 36
    /\ GroupVertices(0) = {0, 2, 4, 6}
    /\ GroupFaces(0) = {<<0, 0>>}

====
